---- MODULE Spec2Model ----
(***************************************************************************)
(* Model of validate_changes.py: the scanner check_swift_file and the      *)
(* driver main.                                                            *)
(*                                                                         *)
(* A text is a sequence of Unicode code points (the characters of a file,  *)
(* or of the str f.read() returns).  An issue is the very string the       *)
(* scanner appends.  A printed                                             *)
(* line is a record [msg, arg]: msg names the print statement, arg is the  *)
(* interpolated value as formatted by the f-string.                        *)
(***************************************************************************)
EXTENDS Integers, Sequences, FiniteSets, TLC

\* ------------------------------------------------------------------------
\* Bounds of the model
\* ------------------------------------------------------------------------

\* Largest number of lines of a generated file text (ScanSpec).
MaxLines == 4

\* Largest number of changes the environment makes to the disk during a run.
MaxEnvSteps == 1

\* ------------------------------------------------------------------------
\* Characters and strings
\* ------------------------------------------------------------------------

\* The code points of the characters the code and the texts below name.
Tab == 9
Newline == 10
CarriageReturn == 13
Space == 32
OpenParen == 40
CloseParen == 41
OpenBracket == 91
CloseBracket == 93
OpenBrace == 123
CloseBrace == 125

\* Characters matched by \s in the (str, hence Unicode) pattern and removed
\* by str.strip(): \t \n \x0b \f \r, \x1c-\x1f, space, \x85, \xa0 and the
\* Unicode spaces.
Whitespace ==
    (9..13) \cup (28..32) \cup {133, 160, 5760} \cup (8192..8202)
            \cup {8232, 8233, 8239, 8287, 12288}

\* Characters matched by \w in the (str, hence Unicode) pattern: '_' and
\* every character str.isalnum() holds of, as ranges <<first, last>> of code
\* points (the Unicode data of CPython 3.11).
WordRanges ==
    {
     <<48,57>>, <<65,90>>, <<95,95>>, <<97,122>>, <<170,170>>, <<178,179>>,
     <<181,181>>, <<185,186>>, <<188,190>>, <<192,214>>, <<216,246>>,
     <<248,705>>, <<710,721>>, <<736,740>>, <<748,748>>, <<750,750>>,
     <<880,884>>, <<886,887>>, <<890,893>>, <<895,895>>, <<902,902>>,
     <<904,906>>, <<908,908>>, <<910,929>>, <<931,1013>>, <<1015,1153>>,
     <<1162,1327>>, <<1329,1366>>, <<1369,1369>>, <<1376,1416>>,
     <<1488,1514>>, <<1519,1522>>, <<1568,1610>>, <<1632,1641>>,
     <<1646,1647>>, <<1649,1747>>, <<1749,1749>>, <<1765,1766>>,
     <<1774,1788>>, <<1791,1791>>, <<1808,1808>>, <<1810,1839>>,
     <<1869,1957>>, <<1969,1969>>, <<1984,2026>>, <<2036,2037>>,
     <<2042,2042>>, <<2048,2069>>, <<2074,2074>>, <<2084,2084>>,
     <<2088,2088>>, <<2112,2136>>, <<2144,2154>>, <<2160,2183>>,
     <<2185,2190>>, <<2208,2249>>, <<2308,2361>>, <<2365,2365>>,
     <<2384,2384>>, <<2392,2401>>, <<2406,2415>>, <<2417,2432>>,
     <<2437,2444>>, <<2447,2448>>, <<2451,2472>>, <<2474,2480>>,
     <<2482,2482>>, <<2486,2489>>, <<2493,2493>>, <<2510,2510>>,
     <<2524,2525>>, <<2527,2529>>, <<2534,2545>>, <<2548,2553>>,
     <<2556,2556>>, <<2565,2570>>, <<2575,2576>>, <<2579,2600>>,
     <<2602,2608>>, <<2610,2611>>, <<2613,2614>>, <<2616,2617>>,
     <<2649,2652>>, <<2654,2654>>, <<2662,2671>>, <<2674,2676>>,
     <<2693,2701>>, <<2703,2705>>, <<2707,2728>>, <<2730,2736>>,
     <<2738,2739>>, <<2741,2745>>, <<2749,2749>>, <<2768,2768>>,
     <<2784,2785>>, <<2790,2799>>, <<2809,2809>>, <<2821,2828>>,
     <<2831,2832>>, <<2835,2856>>, <<2858,2864>>, <<2866,2867>>,
     <<2869,2873>>, <<2877,2877>>, <<2908,2909>>, <<2911,2913>>,
     <<2918,2927>>, <<2929,2935>>, <<2947,2947>>, <<2949,2954>>,
     <<2958,2960>>, <<2962,2965>>, <<2969,2970>>, <<2972,2972>>,
     <<2974,2975>>, <<2979,2980>>, <<2984,2986>>, <<2990,3001>>,
     <<3024,3024>>, <<3046,3058>>, <<3077,3084>>, <<3086,3088>>,
     <<3090,3112>>, <<3114,3129>>, <<3133,3133>>, <<3160,3162>>,
     <<3165,3165>>, <<3168,3169>>, <<3174,3183>>, <<3192,3198>>,
     <<3200,3200>>, <<3205,3212>>, <<3214,3216>>, <<3218,3240>>,
     <<3242,3251>>, <<3253,3257>>, <<3261,3261>>, <<3293,3294>>,
     <<3296,3297>>, <<3302,3311>>, <<3313,3314>>, <<3332,3340>>,
     <<3342,3344>>, <<3346,3386>>, <<3389,3389>>, <<3406,3406>>,
     <<3412,3414>>, <<3416,3425>>, <<3430,3448>>, <<3450,3455>>,
     <<3461,3478>>, <<3482,3505>>, <<3507,3515>>, <<3517,3517>>,
     <<3520,3526>>, <<3558,3567>>, <<3585,3632>>, <<3634,3635>>,
     <<3648,3654>>, <<3664,3673>>, <<3713,3714>>, <<3716,3716>>,
     <<3718,3722>>, <<3724,3747>>, <<3749,3749>>, <<3751,3760>>,
     <<3762,3763>>, <<3773,3773>>, <<3776,3780>>, <<3782,3782>>,
     <<3792,3801>>, <<3804,3807>>, <<3840,3840>>, <<3872,3891>>,
     <<3904,3911>>, <<3913,3948>>, <<3976,3980>>, <<4096,4138>>,
     <<4159,4169>>, <<4176,4181>>, <<4186,4189>>, <<4193,4193>>,
     <<4197,4198>>, <<4206,4208>>, <<4213,4225>>, <<4238,4238>>,
     <<4240,4249>>, <<4256,4293>>, <<4295,4295>>, <<4301,4301>>,
     <<4304,4346>>, <<4348,4680>>, <<4682,4685>>, <<4688,4694>>,
     <<4696,4696>>, <<4698,4701>>, <<4704,4744>>, <<4746,4749>>,
     <<4752,4784>>, <<4786,4789>>, <<4792,4798>>, <<4800,4800>>,
     <<4802,4805>>, <<4808,4822>>, <<4824,4880>>, <<4882,4885>>,
     <<4888,4954>>, <<4969,4988>>, <<4992,5007>>, <<5024,5109>>,
     <<5112,5117>>, <<5121,5740>>, <<5743,5759>>, <<5761,5786>>,
     <<5792,5866>>, <<5870,5880>>, <<5888,5905>>, <<5919,5937>>,
     <<5952,5969>>, <<5984,5996>>, <<5998,6000>>, <<6016,6067>>,
     <<6103,6103>>, <<6108,6108>>, <<6112,6121>>, <<6128,6137>>,
     <<6160,6169>>, <<6176,6264>>, <<6272,6276>>, <<6279,6312>>,
     <<6314,6314>>, <<6320,6389>>, <<6400,6430>>, <<6470,6509>>,
     <<6512,6516>>, <<6528,6571>>, <<6576,6601>>, <<6608,6618>>,
     <<6656,6678>>, <<6688,6740>>, <<6784,6793>>, <<6800,6809>>,
     <<6823,6823>>, <<6917,6963>>, <<6981,6988>>, <<6992,7001>>,
     <<7043,7072>>, <<7086,7141>>, <<7168,7203>>, <<7232,7241>>,
     <<7245,7293>>, <<7296,7304>>, <<7312,7354>>, <<7357,7359>>,
     <<7401,7404>>, <<7406,7411>>, <<7413,7414>>, <<7418,7418>>,
     <<7424,7615>>, <<7680,7957>>, <<7960,7965>>, <<7968,8005>>,
     <<8008,8013>>, <<8016,8023>>, <<8025,8025>>, <<8027,8027>>,
     <<8029,8029>>, <<8031,8061>>, <<8064,8116>>, <<8118,8124>>,
     <<8126,8126>>, <<8130,8132>>, <<8134,8140>>, <<8144,8147>>,
     <<8150,8155>>, <<8160,8172>>, <<8178,8180>>, <<8182,8188>>,
     <<8304,8305>>, <<8308,8313>>, <<8319,8329>>, <<8336,8348>>,
     <<8450,8450>>, <<8455,8455>>, <<8458,8467>>, <<8469,8469>>,
     <<8473,8477>>, <<8484,8484>>, <<8486,8486>>, <<8488,8488>>,
     <<8490,8493>>, <<8495,8505>>, <<8508,8511>>, <<8517,8521>>,
     <<8526,8526>>, <<8528,8585>>, <<9312,9371>>, <<9450,9471>>,
     <<10102,10131>>, <<11264,11492>>, <<11499,11502>>, <<11506,11507>>,
     <<11517,11517>>, <<11520,11557>>, <<11559,11559>>, <<11565,11565>>,
     <<11568,11623>>, <<11631,11631>>, <<11648,11670>>, <<11680,11686>>,
     <<11688,11694>>, <<11696,11702>>, <<11704,11710>>, <<11712,11718>>,
     <<11720,11726>>, <<11728,11734>>, <<11736,11742>>, <<11823,11823>>,
     <<12293,12295>>, <<12321,12329>>, <<12337,12341>>, <<12344,12348>>,
     <<12353,12438>>, <<12445,12447>>, <<12449,12538>>, <<12540,12543>>,
     <<12549,12591>>, <<12593,12686>>, <<12690,12693>>, <<12704,12735>>,
     <<12784,12799>>, <<12832,12841>>, <<12872,12879>>, <<12881,12895>>,
     <<12928,12937>>, <<12977,12991>>, <<13312,19903>>, <<19968,42124>>,
     <<42192,42237>>, <<42240,42508>>, <<42512,42539>>, <<42560,42606>>,
     <<42623,42653>>, <<42656,42735>>, <<42775,42783>>, <<42786,42888>>,
     <<42891,42954>>, <<42960,42961>>, <<42963,42963>>, <<42965,42969>>,
     <<42994,43009>>, <<43011,43013>>, <<43015,43018>>, <<43020,43042>>,
     <<43056,43061>>, <<43072,43123>>, <<43138,43187>>, <<43216,43225>>,
     <<43250,43255>>, <<43259,43259>>, <<43261,43262>>, <<43264,43301>>,
     <<43312,43334>>, <<43360,43388>>, <<43396,43442>>, <<43471,43481>>,
     <<43488,43492>>, <<43494,43518>>, <<43520,43560>>, <<43584,43586>>,
     <<43588,43595>>, <<43600,43609>>, <<43616,43638>>, <<43642,43642>>,
     <<43646,43695>>, <<43697,43697>>, <<43701,43702>>, <<43705,43709>>,
     <<43712,43712>>, <<43714,43714>>, <<43739,43741>>, <<43744,43754>>,
     <<43762,43764>>, <<43777,43782>>, <<43785,43790>>, <<43793,43798>>,
     <<43808,43814>>, <<43816,43822>>, <<43824,43866>>, <<43868,43881>>,
     <<43888,44002>>, <<44016,44025>>, <<44032,55203>>, <<55216,55238>>,
     <<55243,55291>>, <<63744,64109>>, <<64112,64217>>, <<64256,64262>>,
     <<64275,64279>>, <<64285,64285>>, <<64287,64296>>, <<64298,64310>>,
     <<64312,64316>>, <<64318,64318>>, <<64320,64321>>, <<64323,64324>>,
     <<64326,64433>>, <<64467,64829>>, <<64848,64911>>, <<64914,64967>>,
     <<65008,65019>>, <<65136,65140>>, <<65142,65276>>, <<65296,65305>>,
     <<65313,65338>>, <<65345,65370>>, <<65382,65470>>, <<65474,65479>>,
     <<65482,65487>>, <<65490,65495>>, <<65498,65500>>, <<65536,65547>>,
     <<65549,65574>>, <<65576,65594>>, <<65596,65597>>, <<65599,65613>>,
     <<65616,65629>>, <<65664,65786>>, <<65799,65843>>, <<65856,65912>>,
     <<65930,65931>>, <<66176,66204>>, <<66208,66256>>, <<66273,66299>>,
     <<66304,66339>>, <<66349,66378>>, <<66384,66421>>, <<66432,66461>>,
     <<66464,66499>>, <<66504,66511>>, <<66513,66517>>, <<66560,66717>>,
     <<66720,66729>>, <<66736,66771>>, <<66776,66811>>, <<66816,66855>>,
     <<66864,66915>>, <<66928,66938>>, <<66940,66954>>, <<66956,66962>>,
     <<66964,66965>>, <<66967,66977>>, <<66979,66993>>, <<66995,67001>>,
     <<67003,67004>>, <<67072,67382>>, <<67392,67413>>, <<67424,67431>>,
     <<67456,67461>>, <<67463,67504>>, <<67506,67514>>, <<67584,67589>>,
     <<67592,67592>>, <<67594,67637>>, <<67639,67640>>, <<67644,67644>>,
     <<67647,67669>>, <<67672,67702>>, <<67705,67742>>, <<67751,67759>>,
     <<67808,67826>>, <<67828,67829>>, <<67835,67867>>, <<67872,67897>>,
     <<67968,68023>>, <<68028,68047>>, <<68050,68096>>, <<68112,68115>>,
     <<68117,68119>>, <<68121,68149>>, <<68160,68168>>, <<68192,68222>>,
     <<68224,68255>>, <<68288,68295>>, <<68297,68324>>, <<68331,68335>>,
     <<68352,68405>>, <<68416,68437>>, <<68440,68466>>, <<68472,68497>>,
     <<68521,68527>>, <<68608,68680>>, <<68736,68786>>, <<68800,68850>>,
     <<68858,68899>>, <<68912,68921>>, <<69216,69246>>, <<69248,69289>>,
     <<69296,69297>>, <<69376,69415>>, <<69424,69445>>, <<69457,69460>>,
     <<69488,69505>>, <<69552,69579>>, <<69600,69622>>, <<69635,69687>>,
     <<69714,69743>>, <<69745,69746>>, <<69749,69749>>, <<69763,69807>>,
     <<69840,69864>>, <<69872,69881>>, <<69891,69926>>, <<69942,69951>>,
     <<69956,69956>>, <<69959,69959>>, <<69968,70002>>, <<70006,70006>>,
     <<70019,70066>>, <<70081,70084>>, <<70096,70106>>, <<70108,70108>>,
     <<70113,70132>>, <<70144,70161>>, <<70163,70187>>, <<70272,70278>>,
     <<70280,70280>>, <<70282,70285>>, <<70287,70301>>, <<70303,70312>>,
     <<70320,70366>>, <<70384,70393>>, <<70405,70412>>, <<70415,70416>>,
     <<70419,70440>>, <<70442,70448>>, <<70450,70451>>, <<70453,70457>>,
     <<70461,70461>>, <<70480,70480>>, <<70493,70497>>, <<70656,70708>>,
     <<70727,70730>>, <<70736,70745>>, <<70751,70753>>, <<70784,70831>>,
     <<70852,70853>>, <<70855,70855>>, <<70864,70873>>, <<71040,71086>>,
     <<71128,71131>>, <<71168,71215>>, <<71236,71236>>, <<71248,71257>>,
     <<71296,71338>>, <<71352,71352>>, <<71360,71369>>, <<71424,71450>>,
     <<71472,71483>>, <<71488,71494>>, <<71680,71723>>, <<71840,71922>>,
     <<71935,71942>>, <<71945,71945>>, <<71948,71955>>, <<71957,71958>>,
     <<71960,71983>>, <<71999,71999>>, <<72001,72001>>, <<72016,72025>>,
     <<72096,72103>>, <<72106,72144>>, <<72161,72161>>, <<72163,72163>>,
     <<72192,72192>>, <<72203,72242>>, <<72250,72250>>, <<72272,72272>>,
     <<72284,72329>>, <<72349,72349>>, <<72368,72440>>, <<72704,72712>>,
     <<72714,72750>>, <<72768,72768>>, <<72784,72812>>, <<72818,72847>>,
     <<72960,72966>>, <<72968,72969>>, <<72971,73008>>, <<73030,73030>>,
     <<73040,73049>>, <<73056,73061>>, <<73063,73064>>, <<73066,73097>>,
     <<73112,73112>>, <<73120,73129>>, <<73440,73458>>, <<73648,73648>>,
     <<73664,73684>>, <<73728,74649>>, <<74752,74862>>, <<74880,75075>>,
     <<77712,77808>>, <<77824,78894>>, <<82944,83526>>, <<92160,92728>>,
     <<92736,92766>>, <<92768,92777>>, <<92784,92862>>, <<92864,92873>>,
     <<92880,92909>>, <<92928,92975>>, <<92992,92995>>, <<93008,93017>>,
     <<93019,93025>>, <<93027,93047>>, <<93053,93071>>, <<93760,93846>>,
     <<93952,94026>>, <<94032,94032>>, <<94099,94111>>, <<94176,94177>>,
     <<94179,94179>>, <<94208,100343>>, <<100352,101589>>, <<101632,101640>>,
     <<110576,110579>>, <<110581,110587>>, <<110589,110590>>,
     <<110592,110882>>, <<110928,110930>>, <<110948,110951>>,
     <<110960,111355>>, <<113664,113770>>, <<113776,113788>>,
     <<113792,113800>>, <<113808,113817>>, <<119520,119539>>,
     <<119648,119672>>, <<119808,119892>>, <<119894,119964>>,
     <<119966,119967>>, <<119970,119970>>, <<119973,119974>>,
     <<119977,119980>>, <<119982,119993>>, <<119995,119995>>,
     <<119997,120003>>, <<120005,120069>>, <<120071,120074>>,
     <<120077,120084>>, <<120086,120092>>, <<120094,120121>>,
     <<120123,120126>>, <<120128,120132>>, <<120134,120134>>,
     <<120138,120144>>, <<120146,120485>>, <<120488,120512>>,
     <<120514,120538>>, <<120540,120570>>, <<120572,120596>>,
     <<120598,120628>>, <<120630,120654>>, <<120656,120686>>,
     <<120688,120712>>, <<120714,120744>>, <<120746,120770>>,
     <<120772,120779>>, <<120782,120831>>, <<122624,122654>>,
     <<123136,123180>>, <<123191,123197>>, <<123200,123209>>,
     <<123214,123214>>, <<123536,123565>>, <<123584,123627>>,
     <<123632,123641>>, <<124896,124902>>, <<124904,124907>>,
     <<124909,124910>>, <<124912,124926>>, <<124928,125124>>,
     <<125127,125135>>, <<125184,125251>>, <<125259,125259>>,
     <<125264,125273>>, <<126065,126123>>, <<126125,126127>>,
     <<126129,126132>>, <<126209,126253>>, <<126255,126269>>,
     <<126464,126467>>, <<126469,126495>>, <<126497,126498>>,
     <<126500,126500>>, <<126503,126503>>, <<126505,126514>>,
     <<126516,126519>>, <<126521,126521>>, <<126523,126523>>,
     <<126530,126530>>, <<126535,126535>>, <<126537,126537>>,
     <<126539,126539>>, <<126541,126543>>, <<126545,126546>>,
     <<126548,126548>>, <<126551,126551>>, <<126553,126553>>,
     <<126555,126555>>, <<126557,126557>>, <<126559,126559>>,
     <<126561,126562>>, <<126564,126564>>, <<126567,126570>>,
     <<126572,126578>>, <<126580,126583>>, <<126585,126588>>,
     <<126590,126590>>, <<126592,126601>>, <<126603,126619>>,
     <<126625,126627>>, <<126629,126633>>, <<126635,126651>>,
     <<127232,127244>>, <<130032,130041>>, <<131072,173791>>,
     <<173824,177976>>, <<177984,178205>>, <<178208,183969>>,
     <<183984,191456>>, <<194560,195101>>, <<196608,201546>>
    }

IsWordChar(c) == \E r \in WordRanges : r[1] <= c /\ c <= r[2]

\* The literal 'DispatchQueue.main.async'.
Marker ==
    <<68,105,115,112,97,116,99,104,81,117,101,117,101,46,109,97,
      105,110,46,97,115,121,110,99>>

\* The literal 'func' of the pattern.
FuncKeyword == <<102, 117, 110, 99>>

Digit(d) ==
    CASE d = 0 -> "0" [] d = 1 -> "1" [] d = 2 -> "2" [] d = 3 -> "3"
      [] d = 4 -> "4" [] d = 5 -> "5" [] d = 6 -> "6" [] d = 7 -> "7"
      [] d = 8 -> "8" [] d = 9 -> "9"

RECURSIVE NatStr(_)
NatStr(n) == IF n < 10 THEN Digit(n) ELSE NatStr(n \div 10) \o Digit(n % 10)

\* str(n) as an f-string interpolates an int: decimal, '-' for a negative.
IntStr(n) == IF n < 0 THEN "-" \o NatStr(-n) ELSE NatStr(n)

\* line.count(ch)
Count(line, ch) == Cardinality({k \in 1..Len(line) : line[k] = ch})

\* ch in line
HasChar(line, ch) == \E k \in 1..Len(line) : line[k] = ch

\* sub in line, for a non-empty literal sub
Contains(line, sub) ==
    \E k \in 1..(Len(line) - Len(sub) + 1) :
        SubSeq(line, k, k + Len(sub) - 1) = sub

\* content.split('\n'): always at least one element; a trailing newline
\* yields a last empty line.
RECURSIVE Split(_)
Split(s) ==
    IF HasChar(s, Newline)
    THEN LET k == CHOOSE j \in 1..Len(s) :
                      s[j] = Newline /\ \A h \in 1..(j - 1) : s[h] # Newline
         IN  <<SubSeq(s, 1, k - 1)>> \o Split(SubSeq(s, k + 1, Len(s)))
    ELSE <<s>>

\* line.strip() == '}'
StripIsCloseBrace(line) ==
    \E k \in 1..Len(line) :
        /\ line[k] = CloseBrace
        /\ \A j \in 1..Len(line) : j # k => line[j] \in Whitespace

\* re.match(r'\s*func\s+\w+.*\{\s*$', line): a = length of the \s* prefix,
\* b = length of \s+, one \w at least, then .* up to a '{' at k that only
\* whitespace follows ('.' matches anything but a newline).
MatchFuncSignature(line) ==
    LET n == Len(line) IN
    \E a \in 0..n :
        /\ \A j \in 1..a : line[j] \in Whitespace
        /\ a + 4 <= n
        /\ SubSeq(line, a + 1, a + 4) = FuncKeyword
        /\ \E b \in 1..(n - a - 4) :
              /\ \A j \in (a + 5)..(a + 4 + b) : line[j] \in Whitespace
              /\ a + 5 + b <= n
              /\ IsWordChar(line[a + 5 + b])
              /\ \E k \in (a + 6 + b)..n :
                    /\ line[k] = OpenBrace
                    /\ \A j \in (a + 6 + b)..(k - 1) : line[j] # Newline
                    /\ \A j \in (k + 1)..n : line[j] \in Whitespace

\* ------------------------------------------------------------------------
\* check_swift_file
\* ------------------------------------------------------------------------

AsyncIssue(i) ==
    "Line " \o IntStr(i) \o
    ": DispatchQueue.main.async might be missing opening brace"

EmptyBodyIssue(i) ==
    "Line " \o IntStr(i) \o ": Function appears to have empty body"

BraceIssue(c) ==
    "Mismatched braces: " \o IntStr(c) \o " extra opening braces"

ParenIssue(c) ==
    "Mismatched parentheses: " \o IntStr(c) \o " extra opening parentheses"

BracketIssue(c) ==
    "Mismatched brackets: " \o IntStr(c) \o " extra opening brackets"

\* issues = [] and the three counters set to 0 at the start of every call.
InitialScan ==
    [issues |-> <<>>, brace_count |-> 0, paren_count |-> 0, bracket_count |-> 0]

\* The three += of the loop body, for line i (1-based, as enumerate(lines, 1)).
CountLine(st, line) ==
    [st EXCEPT !.brace_count = @ + Count(line, OpenBrace) - Count(line, CloseBrace),
               !.paren_count = @ + Count(line, OpenParen) - Count(line, CloseParen),
               !.bracket_count = @ + Count(line, OpenBracket) - Count(line, CloseBracket)]

\* A variant that omits the i < len(lines) guard of the outer condition.
HeuristicA_NoNextGuard(lines, i) ==
    IF Contains(lines[i], Marker) /\ ~HasChar(lines[i], OpenBrace)
    THEN LET next_line == IF i < Len(lines) THEN lines[i + 1] ELSE <<>>
         IN  IF ~HasChar(next_line, OpenBrace) THEN <<AsyncIssue(i)>> ELSE <<>>
    ELSE <<>>

\* The DispatchQueue.main.async check of line i; Python's lines[i] is the
\* line after line i.  The issues it appends (none or one).
HeuristicA(lines, i) ==
    IF Contains(lines[i], Marker) /\ ~HasChar(lines[i], OpenBrace) /\ i < Len(lines)
    THEN LET next_line == IF i < Len(lines) THEN lines[i + 1] ELSE <<>>
         IN  IF ~HasChar(next_line, OpenBrace) THEN <<AsyncIssue(i)>> ELSE <<>>
    ELSE <<>>

\* A variant that reports the number of the closing-brace line.
HeuristicB_NextLine(lines, i) ==
    IF MatchFuncSignature(lines[i])
    THEN IF i < Len(lines) /\ StripIsCloseBrace(lines[i + 1])
         THEN <<EmptyBodyIssue(i + 1)>>
         ELSE <<>>
    ELSE <<>>

\* The empty-function-body check of line i.  The issues it appends.
HeuristicB(lines, i) ==
    IF MatchFuncSignature(lines[i])
    THEN IF i < Len(lines) /\ StripIsCloseBrace(lines[i + 1])
         THEN <<EmptyBodyIssue(i)>>
         ELSE <<>>
    ELSE <<>>

\* The for loop over enumerate(lines, 1), from line i on.
RECURSIVE ScanLines(_, _, _)
ScanLines(lines, i, st) ==
    IF i > Len(lines)
    THEN st
    ELSE LET counted == CountLine(st, lines[i])
         IN  ScanLines(lines, i + 1,
                 [counted EXCEPT !.issues =
                     @ \o HeuristicA(lines, i) \o HeuristicB(lines, i)])

Abs(n) == IF n < 0 THEN -n ELSE n

\* A variant that reports only a surplus of opening characters.
FinalCounts_OnlyPositive(st) ==
    st.issues
      \o (IF st.brace_count > 0 THEN <<BraceIssue(st.brace_count)>> ELSE <<>>)
      \o (IF st.paren_count > 0 THEN <<ParenIssue(st.paren_count)>> ELSE <<>>)
      \o (IF st.bracket_count > 0
          THEN <<BracketIssue(st.bracket_count)>> ELSE <<>>)

\* A variant that reports the magnitude of the counter.
FinalCounts_Magnitude(st) ==
    st.issues
      \o (IF st.brace_count # 0
          THEN <<BraceIssue(Abs(st.brace_count))>> ELSE <<>>)
      \o (IF st.paren_count # 0
          THEN <<ParenIssue(Abs(st.paren_count))>> ELSE <<>>)
      \o (IF st.bracket_count # 0
          THEN <<BracketIssue(Abs(st.bracket_count))>> ELSE <<>>)

\* A variant that checks the parentheses before the braces.
FinalCounts_ParenFirst(st) ==
    st.issues
      \o (IF st.paren_count # 0 THEN <<ParenIssue(st.paren_count)>> ELSE <<>>)
      \o (IF st.brace_count # 0 THEN <<BraceIssue(st.brace_count)>> ELSE <<>>)
      \o (IF st.bracket_count # 0
          THEN <<BracketIssue(st.bracket_count)>> ELSE <<>>)

\* "Check final counts": one issue per non-zero counter, the counter
\* interpolated as it is.
FinalCounts(st) ==
    st.issues
      \o (IF st.brace_count # 0 THEN <<BraceIssue(st.brace_count)>> ELSE <<>>)
      \o (IF st.paren_count # 0 THEN <<ParenIssue(st.paren_count)>> ELSE <<>>)
      \o (IF st.bracket_count # 0
          THEN <<BracketIssue(st.bracket_count)>> ELSE <<>>)

\* f.read() of a file opened in text mode with the default newline=None:
\* the decoded characters, '\r\n' and a lone '\r' translated to '\n'.
RECURSIVE Read(_)
Read(data) ==
    IF data = <<>> THEN <<>>
    ELSE IF Head(data) = CarriageReturn
         THEN <<Newline>> \o
              Read(IF Len(data) > 1 /\ data[2] = Newline
                   THEN SubSeq(data, 3, Len(data))
                   ELSE Tail(data))
         ELSE <<Head(data)>> \o Read(Tail(data))

\* check_swift_file, given the characters of the file at filepath.
check_swift_file(data) ==
    FinalCounts(ScanLines(Split(Read(data)), 1, InitialScan))

\* ------------------------------------------------------------------------
\* main: the driver
\* ------------------------------------------------------------------------

\* The hard-coded list of main.
modified_files ==
    <<"i18n editor/Views/TranslationEditorView.swift",
      "i18n editor/PermissionManager.swift",
      "i18n editor/FileSystemManager.swift",
      "i18n editor/i18n_editorApp.swift",
      "i18n editor/ContentView.swift",
      "i18n editor/ProjectManager.swift">>

Paths == {modified_files[k] : k \in 1..Len(modified_files)}

\* What the disk holds at a path: nothing, a file open() or read() fails on
\* (undecodable bytes, no permission), or a file with a text.
Absent == [kind |-> "absent", text |-> <<>>]
Unreadable == [kind |-> "unreadable", text |-> <<>>]
File(t) == [kind |-> "file", text |-> t]

VARIABLES
    disk,          \* the file system: path -> Absent, Unreadable or File(text)
    pc,            \* main's position: "exists", "open", "summary", "done",
                   \* or "crashed" once an exception has left main
    idx,           \* 1-based position of the for loop in modified_files
    total_issues,  \* the local total_issues
    scanned,       \* the paths check_swift_file returned for, in order
    text,          \* path -> the content check_swift_file read
    result,        \* path -> the issues check_swift_file returned
    out,           \* the lines printed so far
    files_checked, \* <<n>> once the summary printed 'Files checked: n'
    exit_status,   \* <<s>> once main returned s
    env_steps      \* changes the environment made to the disk so far

vars == <<disk, pc, idx, total_issues, scanned, text, result, out,
          files_checked, exit_status, env_steps>>

\* os.path.exists(path)
exists(d, path) == d[path].kind # "absent"

\* A variant that counts one issue per file with issues.
AddIssues_PerFile(total, issues) == total + 1

\* total_issues += len(issues)
AddIssues(total, issues) == total + Len(issues)

\* A variant with the two branches exchanged.
ExitStatus_Swapped(total) == IF total = 0 THEN 1 ELSE 0

\* The value main returns.
ExitStatus(total) == IF total = 0 THEN 0 ELSE 1

\* len([f for f in modified_files if os.path.exists(f)])
FilesChecked(d) ==
    Cardinality({k \in 1..Len(modified_files) : exists(d, modified_files[k])})

Line(m, a) == [msg |-> m, arg |-> a]

\* The lines printed for a file's issues: the count and one bullet per issue
\* in the order of the list, or the success line.
ReportLines(issues) ==
    IF issues # <<>>
    THEN <<Line("Found issues", IntStr(Len(issues)))>>
           \o [k \in 1..Len(issues) |-> Line("Issue", issues[k])]
    ELSE <<Line("No syntax issues found", "")>>

\* Where the loop goes after the file at idx.
NextFile ==
    /\ idx' = idx + 1
    /\ pc' = IF idx + 1 > Len(modified_files) THEN "summary" ELSE "exists"

\* A variant that counts a missing file as an issue.
CheckExists_CountsMissing ==
    /\ pc = "exists"
    /\ LET filepath == modified_files[idx] IN
       IF exists(disk, filepath)
       THEN /\ out' = Append(out, Line("Checking", filepath))
            /\ pc' = "open"
            /\ idx' = idx
            /\ total_issues' = total_issues
       ELSE /\ out' = Append(out, Line("File not found", filepath))
            /\ total_issues' = total_issues + 1
            /\ NextFile
    /\ UNCHANGED <<disk, scanned, text, result, files_checked, exit_status,
                   env_steps>>

\* if os.path.exists(filepath): print the header and call check_swift_file;
\* else: print 'File not found' and go to the next path.
CheckExists ==
    /\ pc = "exists"
    /\ LET filepath == modified_files[idx] IN
       IF exists(disk, filepath)
       THEN /\ out' = Append(out, Line("Checking", filepath))
            /\ pc' = "open"
            /\ idx' = idx
       ELSE /\ out' = Append(out, Line("File not found", filepath))
            /\ NextFile
    /\ UNCHANGED <<disk, total_issues, scanned, text, result, files_checked,
                   exit_status, env_steps>>

\* check_swift_file opened and read the file; the driver prints its issues
\* and adds their number to the total.
ScanFile ==
    /\ pc = "open"
    /\ disk[modified_files[idx]].kind = "file"
    /\ LET filepath == modified_files[idx]
           content == Read(disk[filepath].text)
           issues == check_swift_file(disk[filepath].text)
       IN  /\ text' = [text EXCEPT ![filepath] = content]
           /\ result' = [result EXCEPT ![filepath] = issues]
           /\ scanned' = Append(scanned, filepath)
           /\ out' = out \o ReportLines(issues)
           /\ total_issues' = IF issues # <<>>
                              THEN AddIssues(total_issues, issues)
                              ELSE total_issues
    /\ NextFile
    /\ UNCHANGED <<disk, files_checked, exit_status, env_steps>>

\* open() or f.read() raises (the file is gone since the existence check,
\* cannot be opened, or is not UTF-8): nothing catches the exception, it
\* leaves check_swift_file and main, and the interpreter exits.
ReadFail ==
    /\ pc = "open"
    /\ disk[modified_files[idx]].kind # "file"
    /\ pc' = "crashed"
    /\ UNCHANGED <<disk, idx, total_issues, scanned, text, result, out,
                   files_checked, exit_status, env_steps>>

\* The summary and the return of main.
Summary ==
    /\ pc = "summary"
    /\ files_checked' = <<FilesChecked(disk)>>
    /\ out' = out \o <<Line("Validation Summary", ""),
                       Line("Files checked", IntStr(FilesChecked(disk))),
                       Line("Total issues", IntStr(total_issues)),
                       IF total_issues = 0
                       THEN Line("All files passed", "")
                       ELSE Line("Some issues found", "")>>
    /\ exit_status' = <<ExitStatus(total_issues)>>
    /\ pc' = "done"
    /\ UNCHANGED <<disk, idx, total_issues, scanned, text, result, env_steps>>

\* ------------------------------------------------------------------------
\* The file texts the model runs on
\* ------------------------------------------------------------------------

\* 'a\nb' from <<a, b>>
RECURSIVE Join(_)
Join(ls) ==
    IF Len(ls) = 1 THEN ls[1] ELSE ls[1] \o <<Newline>> \o Join(Tail(ls))

\* The lines the generated texts are made of: with and without the marker,
\* a signature ('\xa0func\x0b\xe9(){\u2003': Unicode whitespace and a
\* Unicode word character), 'func {', a closing brace within whitespace
\* ('\t}\x1c'), each bracket kind.
LinePool ==
    { <<>>,
      Marker,
      Marker \o <<Space, OpenBrace>>,
      <<160>> \o FuncKeyword \o
          <<11, 233, OpenParen, CloseParen, OpenBrace, 8195>>,
      FuncKeyword \o <<Space, OpenBrace>>,
      <<Tab, CloseBrace, 28>>,
      <<CloseBrace, CloseParen>>,
      <<OpenParen, OpenBracket>>,
      <<CloseBracket>> }

RECURSIVE LineSeqs(_)
LineSeqs(n) ==
    IF n = 0 THEN {<<>>}
    ELSE LET shorter == LineSeqs(n - 1)
         IN  shorter \cup {Append(ls, l) : ls \in {x \in shorter : Len(x) = n - 1},
                                            l \in LinePool}

\* Every text of 1..MaxLines lines of the pool.
Contents == {Join(ls) : ls \in LineSeqs(MaxLines) \ {<<>>}}

\* A file without issues: '{}\r\n'.
CleanText == <<OpenBrace, CloseBrace, CarriageReturn, Newline>>

\* A file with two issues, an empty function body and two unclosed braces:
\* 'func f {\r\n}\r{{'.
DirtyText ==
    FuncKeyword \o <<Space, 102, Space, OpenBrace, CarriageReturn, Newline,
                      CloseBrace, CarriageReturn, OpenBrace, OpenBrace>>

DiskValues == {Absent, Unreadable, File(CleanText), File(DirtyText)}

\* The environment creates, removes, replaces or corrupts a file while the
\* driver runs.
EnvChange ==
    /\ pc \notin {"done", "crashed"}
    /\ env_steps < MaxEnvSteps
    /\ \E p \in Paths, v \in DiskValues :
          /\ v # disk[p]
          /\ disk' = [disk EXCEPT ![p] = v]
    /\ env_steps' = env_steps + 1
    /\ UNCHANGED <<pc, idx, total_issues, scanned, text, result, out,
                   files_checked, exit_status>>

\* The state when main starts its loop, on a given disk.
Start(d) ==
    /\ disk = d
    /\ pc = "exists"
    /\ idx = 1
    /\ total_issues = 0
    /\ scanned = <<>>
    /\ text = [p \in Paths |-> <<>>]
    /\ result = [p \in Paths |-> <<>>]
    /\ out = <<Line("Validating", "")>>
    /\ files_checked = <<>>
    /\ exit_status = <<>>
    /\ env_steps = 0

Init == \E d \in [Paths -> DiskValues] : Start(d)

Driver == CheckExists \/ ScanFile \/ ReadFail \/ Summary

Next == Driver \/ EnvChange

\* The driver on any disk, the environment changing it while it runs.
Spec == Init /\ [][Next]_vars

\* One file of the list present, with any text of Contents or unreadable; the
\* disk does not change during the run.
ScanInit ==
    \E v \in {File(c) : c \in Contents} \cup {Unreadable} :
        Start([p \in Paths |-> IF p = modified_files[1] THEN v ELSE Absent])

ScanSpec == ScanInit /\ [][Driver]_vars

\* ------------------------------------------------------------------------
\* Properties
\* ------------------------------------------------------------------------

ScannedSet == {scanned[k] : k \in 1..Len(scanned)}

\* The lines of a scanned file's text.
LinesOf(p) == Split(text[p])

\* Occurrences of open minus occurrences of close in the whole text.
Diff(t, open, close) == Count(t, open) - Count(t, close)

Occurs(is, s) == \E k \in 1..Len(is) : is[k] = s

Times(is, s) == Cardinality({k \in 1..Len(is) : is[k] = s})

\* The counts a balance issue of a text can carry: no counter leaves the
\* range of the number of bracket characters of the text (plus one).
CountRange(t) ==
    LET m == Cardinality({k \in 1..Len(t) :
                             t[k] \in {OpenBrace, CloseBrace, OpenParen, CloseParen, OpenBracket, CloseBracket}}) + 1
    IN  (0 - m)..m

\* The places of the issues of one bracket kind in an issue list.
BraceAt(t, is) ==
    LET cs == {BraceIssue(c) : c \in CountRange(t)}
    IN  {k \in 1..Len(is) : is[k] \in cs}
ParenAt(t, is) ==
    LET cs == {ParenIssue(c) : c \in CountRange(t)}
    IN  {k \in 1..Len(is) : is[k] \in cs}
BracketAt(t, is) ==
    LET cs == {BracketIssue(c) : c \in CountRange(t)}
    IN  {k \in 1..Len(is) : is[k] \in cs}
BalanceAt(t, is) == BraceAt(t, is) \cup ParenAt(t, is) \cup BracketAt(t, is)

RECURSIVE SumLens(_)
SumLens(ps) ==
    IF ps = <<>> THEN 0 ELSE Len(result[Head(ps)]) + SumLens(Tail(ps))

\* C1: when main returns, its status is 0 if and only if the issues of all
\* scanned files number 0, and 1 otherwise, whatever files are absent.
C1_ExitStatus ==
    pc = "done" =>
        /\ exit_status = IF SumLens(scanned) = 0 THEN <<0>> ELSE <<1>>
        /\ (exit_status = <<0>>) <=> (\A p \in ScannedSet : result[p] = <<>>)

\* A run that returned 0 although a file of the list was absent and another
\* was scanned.
C1_Witness ==
    /\ pc = "done"
    /\ exit_status = <<0>>
    /\ scanned # <<>>
    /\ \E p \in Paths : Occurs(out, Line("File not found", p))

\* Exactly one '{' of the text is unmatched and the other kinds are balanced.
OneOpenBrace(t) ==
    /\ Diff(t, OpenBrace, CloseBrace) = 1
    /\ Count(t, OpenBrace) = Count(t, CloseBrace) + 1
    /\ Diff(t, OpenParen, CloseParen) = 0
    /\ Diff(t, OpenBracket, CloseBracket) = 0

\* C2: a balance issue of a kind is among the issues if and only if the
\* whole-file counts of that kind's opening and closing characters differ;
\* a text whose only imbalance is one unmatched '{' yields exactly one
\* balance issue, the one of braces with count 1.
C2_BalanceIff ==
    pc = "done" =>
        \A p \in ScannedSet :
            LET t == text[p]
                is == result[p]
            IN  /\ (BraceAt(t, is) # {}) <=> (Count(t, OpenBrace) # Count(t, CloseBrace))
                /\ (ParenAt(t, is) # {}) <=> (Count(t, OpenParen) # Count(t, CloseParen))
                /\ (BracketAt(t, is) # {}) <=> (Count(t, OpenBracket) # Count(t, CloseBracket))
                /\ OneOpenBrace(t) =>
                      /\ Cardinality(BalanceAt(t, is)) = 1
                      /\ Occurs(is, "Mismatched braces: 1 extra opening braces")

\* A scanned text with one unmatched '{' and its braces issue.
C2_Witness ==
    /\ pc = "done"
    /\ \E p \in ScannedSet :
          /\ OneOpenBrace(text[p])
          /\ Count(text[p], CloseBrace) > 0
          /\ Occurs(result[p], "Mismatched braces: 1 extra opening braces")

\* C3 as stated: the count of every balance issue is a positive number.
C3_Original ==
    pc = "done" =>
        \A p \in ScannedSet :
            \A k \in BalanceAt(text[p], result[p]) :
                \E c \in CountRange(text[p]) :
                    /\ c > 0
                    /\ result[p][k] \in
                           {BraceIssue(c), ParenIssue(c), BracketIssue(c)}

\* C3: the count of a balance issue is the signed counter, openers minus
\* closers over the whole file: never zero, negative when the closers are
\* more.
C3_SignedCount ==
    pc = "done" =>
        \A p \in ScannedSet :
            LET t == text[p]
                is == result[p]
            IN  /\ \A k \in BraceAt(t, is) :
                      /\ Diff(t, OpenBrace, CloseBrace) # 0
                      /\ is[k] = BraceIssue(Diff(t, OpenBrace, CloseBrace))
                /\ \A k \in ParenAt(t, is) :
                      /\ Diff(t, OpenParen, CloseParen) # 0
                      /\ is[k] = ParenIssue(Diff(t, OpenParen, CloseParen))
                /\ \A k \in BracketAt(t, is) :
                      /\ Diff(t, OpenBracket, CloseBracket) # 0
                      /\ is[k] = BracketIssue(Diff(t, OpenBracket, CloseBracket))

\* A text with more '}' than '{' and the issue that reports -1.
C3_Witness ==
    /\ pc = "done"
    /\ \E p \in ScannedSet :
          /\ Diff(text[p], OpenBrace, CloseBrace) = 0 - 1
          /\ Occurs(result[p], "Mismatched braces: -1 extra opening braces")

\* Line i is a function signature and line i + 1 a lone closing brace.
EmptyBodyAt(ls, i) ==
    /\ i \in 1..(Len(ls) - 1)
    /\ MatchFuncSignature(ls[i])
    /\ StripIsCloseBrace(ls[i + 1])

\* C4 as stated: the empty-body issue carries the number of the
\* closing-brace line.
C4_Original ==
    pc = "done" =>
        \A p \in ScannedSet :
            LET ls == LinesOf(p) IN
            \A i \in 1..Len(ls) :
                EmptyBodyAt(ls, i) => Occurs(result[p], EmptyBodyIssue(i + 1))

\* C4: 'Line N: Function appears to have empty body' is emitted, once,
\* exactly for the signature lines N that a lone closing brace follows: N is
\* the number of the signature line.
C4_SignatureLine ==
    pc = "done" =>
        \A p \in ScannedSet :
            LET ls == LinesOf(p) IN
            \A n \in 0..(Len(ls) + 1) :
                Times(result[p], EmptyBodyIssue(n)) =
                    IF EmptyBodyAt(ls, n) THEN 1 ELSE 0

\* A signature on a line after the first, a lone brace after it, and the
\* issue with the signature's number.
C4_Witness ==
    /\ pc = "done"
    /\ \E p \in ScannedSet :
          /\ Len(LinesOf(p)) > 2
          /\ EmptyBodyAt(LinesOf(p), 2)
          /\ Occurs(result[p], "Line 2: Function appears to have empty body")
          /\ ~Occurs(result[p], EmptyBodyIssue(3))

\* Line n holds the marker and no '{', and a next line exists and holds no
\* '{'.
DanglingAsyncAt(ls, n) ==
    /\ n \in 1..Len(ls)
    /\ Contains(ls[n], Marker)
    /\ ~HasChar(ls[n], OpenBrace)
    /\ n < Len(ls)
    /\ ~HasChar(ls[n + 1], OpenBrace)

\* C5: 'Line N: DispatchQueue.main.async might be missing opening brace' is
\* emitted, once, exactly for the lines N that hold the marker and no '{'
\* and have a next line without '{'; never for a marker on the last line.
C5_AsyncIff ==
    pc = "done" =>
        \A p \in ScannedSet :
            LET ls == LinesOf(p) IN
            \A n \in 0..(Len(ls) + 1) :
                Times(result[p], AsyncIssue(n)) =
                    IF DanglingAsyncAt(ls, n) THEN 1 ELSE 0

\* A text whose first and last lines hold the marker: the issue is emitted
\* for line 1 and not for the last line.
C5_Witness ==
    /\ pc = "done"
    /\ \E p \in ScannedSet :
          LET ls == LinesOf(p) IN
          /\ Len(ls) > 1
          /\ Contains(ls[Len(ls)], Marker)
          /\ ~HasChar(ls[Len(ls)], OpenBrace)
          /\ Occurs(result[p],
                "Line 1: DispatchQueue.main.async might be missing opening brace")
          /\ ~Occurs(result[p], AsyncIssue(Len(ls)))

\* C6 as stated: no read failure aborts the run.
C6_Original == pc # "crashed"

\* The step of the driver on a path that does not exist.
C7_Step ==
    (/\ pc = "exists"
     /\ ~exists(disk, modified_files[idx])
     /\ <<pc, idx>>' # <<pc, idx>>)
    => /\ out' = Append(out, Line("File not found", modified_files[idx]))
       /\ total_issues' = total_issues
       /\ scanned' = scanned
       /\ text' = text
       /\ result' = result
       /\ idx' = idx + 1
       /\ pc' \in {"exists", "summary"}

\* Every path of the list was reported as not found.
AllNotFound ==
    \A k \in 1..Len(modified_files) :
        Occurs(out, Line("File not found", modified_files[k]))

\* C7: on a path that does not exist the driver prints 'File not found',
\* does not scan, leaves the total unchanged and goes to the next path; a run
\* in which every path is absent ends with total 0, 0 files checked and
\* status 0.
C7_NotFound ==
    /\ [][C7_Step]_vars
    /\ []((pc = "done" /\ AllNotFound /\ \A p \in Paths : ~exists(disk, p))
            => /\ total_issues = 0
               /\ scanned = <<>>
               /\ files_checked = <<0>>
               /\ exit_status = <<0>>
               /\ Occurs(out, Line("Files checked", "0"))
               /\ Occurs(out, Line("Total issues", "0")))

\* The end of a run on a disk without any file of the list.
C7_Witness ==
    /\ pc = "done"
    /\ env_steps = 0
    /\ AllNotFound
    /\ \A p \in Paths : ~exists(disk, p)
    /\ files_checked = <<0>>
    /\ exit_status = <<0>>

\* C8: the total equals the sum of the lengths of the issue lists of the
\* scanned files, and a file's issue list is that of its own text scanned
\* from counters at 0: two files with the same text have the same issues
\* wherever they stand in the list.
C8_TotalIsSum ==
    /\ total_issues = SumLens(scanned)
    /\ Len(scanned) = Cardinality(ScannedSet)
    /\ \A p \in ScannedSet :
          /\ text[p] = Read(CleanText) => result[p] = <<>>
          /\ \A q \in ScannedSet : text[p] = text[q] => result[p] = result[q]

\* A file with two issues scanned after a file with two issues: 4 in total.
C8_Witness ==
    /\ pc = "done"
    /\ Len(scanned) >= 3
    /\ text[scanned[1]] = Read(DirtyText)
    /\ text[scanned[2]] = Read(CleanText)
    /\ text[scanned[3]] = Read(DirtyText)
    /\ Len(result[scanned[3]]) = 2
    /\ Len(scanned) = 3 => total_issues = 4 /\ exit_status = <<1>>

\* C9 as stated: the 'Files checked' count is the number of files scanned.
C9_Original == pc = "done" => files_checked = <<Len(scanned)>>

\* The place of an issue in the order of the claim: 2N for the async issue
\* of line N, 2N + 1 for its empty-body issue, then braces, parentheses,
\* brackets.
Keys(s, t) ==
    LET n == Len(Split(t))
    IN  {2 * N : N \in {M \in 1..n : s = AsyncIssue(M)}}
          \cup {2 * N + 1 : N \in {M \in 1..n : s = EmptyBodyIssue(M)}}
          \cup {2 * n + 2 : c \in {d \in CountRange(t) : s = BraceIssue(d)}}
          \cup {2 * n + 3 : c \in {d \in CountRange(t) : s = ParenIssue(d)}}
          \cup {2 * n + 4 : c \in {d \in CountRange(t) : s = BracketIssue(d)}}

Ordered(is, t) ==
    /\ \A k \in 1..Len(is) : Keys(is[k], t) # {}
    /\ \A j, k \in 1..Len(is) :
          j < k =>
              \A a \in Keys(is[j], t), b \in Keys(is[k], t) :
                  /\ a <= b
                  /\ b > 2 * Len(Split(t)) + 1 => a < b

\* What the driver prints for the file at a path.
ExpectedFileOut(p) ==
    IF p \in ScannedSet
    THEN <<Line("Checking", p)>>
           \o (IF result[p] = <<>>
               THEN <<Line("No syntax issues found", "")>>
               ELSE <<Line("Found issues", IntStr(Len(result[p])))>>
                      \o [k \in 1..Len(result[p]) |-> Line("Issue", result[p][k])])
    ELSE <<Line("File not found", p)>>

RECURSIVE ExpectedOut(_)
ExpectedOut(k) ==
    IF k = 0 THEN <<Line("Validating", "")>>
    ELSE ExpectedOut(k - 1) \o ExpectedFileOut(modified_files[k])

\* What the driver prints after the loop.
ExpectedSummary ==
    <<Line("Validation Summary", ""),
      Line("Files checked", IntStr(Len(scanned))),
      Line("Total issues", IntStr(SumLens(scanned))),
      IF \A p \in ScannedSet : result[p] = <<>>
      THEN Line("All files passed", "")
      ELSE Line("Some issues found", "")>>

\* C10: the issues of a file are ordered: the line issues by line number (on
\* one line the async issue before the empty-body issue), then at most one
\* issue each of braces, parentheses, brackets, in that order; the driver
\* prints the issues in that order and the files in the order of the list.
C10_Order ==
    pc = "done" =>
        /\ \A p \in ScannedSet : Ordered(result[p], text[p])
        /\ out = ExpectedOut(Len(modified_files)) \o ExpectedSummary

\* An async issue, an empty-body issue and two balance issues, in order.
C10_Witness ==
    /\ pc = "done"
    /\ \E p \in ScannedSet :
          /\ Len(result[p]) = 4
          /\ result[p][1] = AsyncIssue(1)
          /\ result[p][2] = EmptyBodyIssue(3)
          /\ result[p][3] = BraceIssue(0 - 1)
          /\ result[p][4] = ParenIssue(0 - 1)
          /\ Occurs(out, Line("Issue", result[p][4]))

====
